---- MODULE Spec2Model ----
(***************************************************************************)
(* Model of src/a.cpp: twoSum (hash-map single pass) and the input loop of *)
(* main.  Indices are 0-based as in the source; a C++ vector v is a TLA+   *)
(* sequence and v[k] is At(v, k).                                          *)
(***************************************************************************)
EXTENDS Integers, Sequences, FiniteSets, TLC

VARIABLES
    input,    \* the characters on standard input (never changes)
    pos,      \* number of characters of input already consumed by std::cin
    num,      \* main: int num
    c,        \* main: char c ("indeterminate" until std::cin.get assigns it)
    nums,     \* main: std::vector<int> nums / twoSum's parameter nums
    target,   \* twoSum's parameter target
    i,        \* twoSum: loop variable i
    numMap,   \* twoSum: std::unordered_map<int,int> numMap, a function key -> index
    result,   \* the vector returned by twoSum
    out,      \* the array printed by main
    pc        \* control position

vars == <<input, pos, num, c, nums, target, i, numMap, result, out, pc>>

---------------------------------------------------------------------------
(* int: 32-bit two's complement.                                           *)

INT_MAX == 2147483647

INT_MIN == -INT_MAX - 1

\* a - b does not leave the range of int
SubFits(a, b) ==
    IF b >= 0 THEN a >= INT_MIN + b ELSE a <= INT_MAX + b

\* a - b in int arithmetic: the low 32 bits of the difference.  Signed
\* overflow is formally undefined in C++; the difference is used only as a
\* hash-map key, so a build computes it with the machine's subtraction, which
\* wraps (spec 4.1: "mirrors native integer arithmetic").  Written so that
\* no intermediate value leaves the 32-bit range.
Sub32(a, b) ==
    IF SubFits(a, b) THEN a - b
    ELSE IF b >= 0 THEN (a - INT_MIN) + (INT_MAX - b) + 1
    ELSE (a - INT_MAX) + (INT_MIN - b) - 1

\* nums[k]
At(v, k) == v[k + 1]

---------------------------------------------------------------------------
(* twoSum, src/a.cpp:9-19                                                  *)

\* std::unordered_map<int,int> numMap;   (line 10)
EmptyMap == [k \in {} |-> 0]

\* faulty variant: the key is inserted only when absent (first occurrence kept)
MapPutIfAbsent(m, k, v) ==
    IF k \in DOMAIN m THEN m
    ELSE [x \in DOMAIN m \cup {k} |-> IF x = k THEN v ELSE m[x]]

\* faulty variant: the element at index 0 is never recorded
MapPutSkipFirst(m, k, v) ==
    IF v = 0 THEN m
    ELSE [x \in DOMAIN m \cup {k} |-> IF x = k THEN v ELSE m[x]]

\* numMap[k] = v;   (line 16: operator[] inserts the key or overwrites its value)
MapPut(m, k, v) ==
    [x \in DOMAIN m \cup {k} |-> IF x = k THEN v ELSE m[x]]

\* faulty variant: operands of the subtraction swapped
ComplementSwapped(t, x) == Sub32(x, t)

\* int complement = target - nums[i];   (line 12)
Complement(t, x) == Sub32(t, x)

\* faulty variant: the pair is returned in the wrong order
ReturnPairSwapped(m, comp, k) == <<k, m[comp]>>

\* return {numMap[complement], i};   (line 14)
ReturnPair(m, comp, k) == <<m[comp], k>>

\* numMap.find(complement) != numMap.end()   (line 13)
Contains(m, k) == k \in DOMAIN m

\* lines 11-15: the loop test holds and the complement is a key: return the pair
LoopFound ==
    /\ pc = "scanning"
    /\ i < Len(nums)
    /\ Contains(numMap, Complement(target, At(nums, i)))
    /\ result' = ReturnPair(numMap, Complement(target, At(nums, i)), i)
    /\ pc' = "found"
    /\ UNCHANGED <<input, pos, num, c, nums, target, i, numMap, out>>

\* faulty variant: ++i is forgotten
LoopInsertNoIncrement ==
    /\ pc = "scanning"
    /\ i < Len(nums)
    /\ ~Contains(numMap, Complement(target, At(nums, i)))
    /\ numMap' = MapPut(numMap, At(nums, i), i)
    /\ UNCHANGED <<input, pos, num, c, nums, target, i, result, out, pc>>

\* lines 11-17: the loop test holds and the complement is no key: record
\* nums[i] -> i and go on with ++i
LoopInsert ==
    /\ pc = "scanning"
    /\ i < Len(nums)
    /\ ~Contains(numMap, Complement(target, At(nums, i)))
    /\ numMap' = MapPut(numMap, At(nums, i), i)
    /\ i' = i + 1
    /\ UNCHANGED <<input, pos, num, c, nums, target, result, out, pc>>

\* faulty variant: the scan stops one element early
LoopExitEarly ==
    /\ pc = "scanning"
    /\ i + 1 >= Len(nums)
    /\ result' = <<>>
    /\ pc' = "exhausted"
    /\ UNCHANGED <<input, pos, num, c, nums, target, i, numMap, out>>

\* lines 11, 18: i < nums.size() fails: return {}
LoopExit ==
    /\ pc = "scanning"
    /\ ~(i < Len(nums))
    /\ result' = <<>>
    /\ pc' = "exhausted"
    /\ UNCHANGED <<input, pos, num, c, nums, target, i, numMap, out>>

---------------------------------------------------------------------------
(* main, src/a.cpp:21-40.  std::cin is the pair (input, pos): the stream   *)
(* holds the characters input[pos+1 .. Len(input)].  eofbit and failbit    *)
(* are not kept: eofbit is set only once every character is consumed, and  *)
(* then an extraction or a get finds no character and fails anyway; the    *)
(* loop ends at the first failbit.                                         *)

\* the characters an input may hold
Chars == {"0", "1", "-", " ", "\n"}

\* std::isspace, as the sentry of operator>> uses it to skip whitespace
IsSpace(ch) == ch \in {" ", "\n"}

Digits == <<"0", "1", "2", "3", "4", "5", "6", "7", "8", "9">>

IsDigit(ch) == \E k \in 1..10 : Digits[k] = ch

\* the value of a decimal digit
DigitOf(ch) == (CHOOSE k \in 1..10 : Digits[k] = ch) - 1

\* the sentry of operator>>: the position after the leading whitespace
RECURSIVE SkipWs(_, _)
SkipWs(s, p) ==
    IF p < Len(s) /\ IsSpace(s[p + 1]) THEN SkipWs(s, p + 1) ELSE p

\* num_get: the position after the run of digits that starts at p
RECURSIVE DigitsEnd(_, _)
DigitsEnd(s, p) ==
    IF p < Len(s) /\ IsDigit(s[p + 1]) THEN DigitsEnd(s, p + 1) ELSE p

\* num_get: the digits s[p+1..q] accumulated as a negative number, starting
\* from acc; 1 when the magnitude exceeds 2^31
RECURSIVE NegValue(_, _, _, _)
NegValue(s, p, q, acc) ==
    IF p = q THEN acc
    ELSE LET d == DigitOf(s[p + 1]) IN
         IF \/ acc > -(INT_MAX \div 10)
            \/ acc = -(INT_MAX \div 10) /\ d <= (INT_MAX % 10) + 1
         THEN NegValue(s, p + 1, q, acc * 10 - d)
         ELSE 1

\* std::cin >> num with pos = p   (line 26).  ok: the stream is still good
\* (the while condition); set: num is assigned val; pos: the new position.
\*  - only whitespace left: the sentry fails, num is left as it was;
\*  - no digit after the optional sign: failbit, num = 0;
\*  - out of range: failbit, num = INT_MAX or INT_MIN;
\*  - otherwise num is the decimal value of the digits.
Extract(s, p) ==
    LET p1 == SkipWs(s, p)
        neg == p1 < Len(s) /\ s[p1 + 1] = "-"
        p2 == IF neg THEN p1 + 1 ELSE p1
        p3 == DigitsEnd(s, p2)
        nv == NegValue(s, p2, p3, 0)
    IN  IF p1 = Len(s) THEN [ok |-> FALSE, set |-> FALSE, val |-> 0, pos |-> p1]
        ELSE IF p3 = p2 THEN [ok |-> FALSE, set |-> TRUE, val |-> 0, pos |-> p2]
        ELSE IF nv = 1 \/ (~neg /\ nv = INT_MIN)
             THEN [ok |-> FALSE, set |-> TRUE,
                   val |-> IF neg THEN INT_MIN ELSE INT_MAX, pos |-> p3]
        ELSE [ok |-> TRUE, set |-> TRUE, val |-> IF neg THEN nv ELSE -nv, pos |-> p3]

\* std::cin.get(c) with pos = p and c = old   (line 27): the next character
\* is assigned to c if there is one; otherwise c is left as it was
GetChar(s, p, old) == IF p < Len(s) THEN s[p + 1] ELSE old

GetPos(s, p) == IF p < Len(s) THEN p + 1 ELSE p

\* c == '\n'   (line 28) may be true: c is a newline, or c was never assigned
\* and its value is indeterminate
MayBeNewline(ch) == ch = "\n" \/ ch = "indeterminate"

\* c == '\n' may be false
MayBeOther(ch) == ch # "\n"

\* line 26, the while condition fails: the loop ends
ReadFail ==
    /\ pc = "read"
    /\ LET e == Extract(input, pos) IN
       /\ ~e.ok
       /\ num' = IF e.set THEN e.val ELSE num
       /\ pos' = e.pos
    /\ pc' = "call"
    /\ UNCHANGED <<input, c, nums, target, i, numMap, result, out>>

\* faulty variant: the integer before the newline is appended too
ReadBreakAppending ==
    /\ pc = "read"
    /\ LET e == Extract(input, pos) IN
       /\ e.ok
       /\ num' = e.val
       /\ c' = GetChar(input, e.pos, c)
       /\ pos' = GetPos(input, e.pos)
    /\ MayBeNewline(c')
    /\ nums' = Append(nums, num')
    /\ pc' = "call"
    /\ UNCHANGED <<input, target, i, numMap, result, out>>

\* lines 26-30: an integer is read, c == '\n' holds: break
ReadBreak ==
    /\ pc = "read"
    /\ LET e == Extract(input, pos) IN
       /\ e.ok
       /\ num' = e.val
       /\ c' = GetChar(input, e.pos, c)
       /\ pos' = GetPos(input, e.pos)
    /\ MayBeNewline(c')
    /\ pc' = "call"
    /\ UNCHANGED <<input, nums, target, i, numMap, result, out>>

\* lines 26-32: an integer is read, c == '\n' fails: nums.push_back(num)
ReadPush ==
    /\ pc = "read"
    /\ LET e == Extract(input, pos) IN
       /\ e.ok
       /\ num' = e.val
       /\ c' = GetChar(input, e.pos, c)
       /\ pos' = GetPos(input, e.pos)
    /\ MayBeOther(c')
    /\ nums' = Append(nums, num')
    /\ pc' = "read"
    /\ UNCHANGED <<input, target, i, numMap, result, out>>

\* lines 33-35: int target = num; twoSum(nums, target) is entered
Call ==
    /\ pc = "call"
    /\ target' = num
    /\ i' = 0
    /\ numMap' = EmptyMap
    /\ pc' = "scanning"
    /\ UNCHANGED <<input, pos, num, c, nums, result, out>>

\* lines 35-39: the returned vector becomes the JSON array that is printed
Output ==
    /\ pc \in {"found", "exhausted"}
    /\ out' = result
    /\ pc' = "done"
    /\ UNCHANGED <<input, pos, num, c, nums, target, i, numMap, result>>

---------------------------------------------------------------------------
(* Bounds and input domains of the twoSum specification.                   *)

MaxLen == 3

\* element and target values: the extremes of int and small values around 0
Vals == {INT_MIN, -2, -1, 0, 1, 2, 3, INT_MAX}

SeqsUpTo(S, n) == UNION {[1..k -> S] : k \in 0..n}

\* the state at entry to twoSum(S, T), numMap just constructed and i = 0
Init ==
    /\ input = <<>>
    /\ pos = 0
    /\ num = 0
    /\ c = "indeterminate"
    /\ nums \in SeqsUpTo(Vals, MaxLen)
    /\ target \in Vals
    /\ i = 0
    /\ numMap = EmptyMap
    /\ result = <<>>
    /\ out = <<>>
    /\ pc = "scanning"

Next == LoopFound \/ LoopInsert \/ LoopExit

Spec == Init /\ [][Next]_vars

\* the loop is sequential code: an enabled step is eventually taken
FairSpec == Spec /\ WF_vars(Next)

---------------------------------------------------------------------------
(* The specification of main: every input of at most MaxInput characters.  *)

MaxInput == 6

\* values the never-assigned int num may hold (line 23)
IndeterminateInts == {0, 3}

\* the state at entry to main's loop
InitMain ==
    /\ input \in SeqsUpTo(Chars, MaxInput)
    /\ pos = 0
    /\ num \in IndeterminateInts
    /\ c = "indeterminate"
    /\ nums = <<>>
    /\ target = 0
    /\ i = 0
    /\ numMap = EmptyMap
    /\ result = <<>>
    /\ out = <<>>
    /\ pc = "read"

NextMain ==
    \/ ReadFail
    \/ ReadBreak
    \/ ReadPush
    \/ Call
    \/ LoopFound
    \/ LoopInsert
    \/ LoopExit
    \/ Output

SpecMain == InitMain /\ [][NextMain]_vars

---------------------------------------------------------------------------
(* Properties of twoSum.  S is nums, T is target; a returned pair is       *)
(* (result[1], result[2]).  Sums of elements are taken in the int          *)
(* arithmetic of the program (32-bit, wrap-around) unless said otherwise.  *)

AddFits(a, b) ==
    IF b >= 0 THEN a <= INT_MAX - b ELSE a >= INT_MIN - b

\* a + b in int arithmetic (low 32 bits of the sum)
Add32(a, b) ==
    IF AddFits(a, b) THEN a + b
    ELSE IF b >= 0 THEN (a - INT_MAX) + (b + INT_MIN) - 1
    ELSE (a - INT_MIN) + (b + INT_MAX) + 1

\* a + b = t over the mathematical integers
ExactSumIs(a, b, t) == AddFits(a, b) /\ a + b = t

Indices == 0..(Len(nums) - 1)

\* positions a < b of S whose elements sum to T
ValidPair(a, b) ==
    /\ a \in Indices
    /\ b \in Indices
    /\ a < b
    /\ Add32(At(nums, a), At(nums, b)) = target

Returned == pc \in {"found", "exhausted"}

\* the indices smaller than k that hold the value v
Occurrences(v, k) == {m \in 0..(k - 1) : At(nums, m) = v}

SetMin(A) == CHOOSE x \in A : \A y \in A : x <= y

SetMax(A) == CHOOSE x \in A : \A y \in A : x >= y

\* C1: twoSum returns either the empty result or exactly two indices (i, j)
\* with 0 <= i < j < length(S) and S[i] + S[j] == T; an element is never
\* paired with itself.
C1_PairContract ==
    Returned =>
        \/ result = <<>>
        \/ /\ Len(result) = 2
           /\ 0 <= result[1]
           /\ result[1] < result[2]
           /\ result[2] < Len(nums)
           /\ Add32(At(nums, result[1]), At(nums, result[2])) = target

\* two equal elements at different positions are paired; the first is not
\* paired with itself at index 0
C1_Witness ==
    /\ pc = "found"
    /\ nums = <<1, 1>>
    /\ target = 2
    /\ result = <<0, 1>>

\* C2: twoSum returns the empty result if and only if no positions i < j of S
\* have S[i] + S[j] == T; whenever such a pair exists, a pair is returned.
C2_EmptyIffNoPair ==
    Returned =>
        ((result = <<>>) <=> ~(\E a \in Indices, b \in Indices : ValidPair(a, b)))

\* a full pass over three elements, the target twice one element, no pair
C2_Witness ==
    /\ pc = "exhausted"
    /\ Len(nums) = 3
    /\ target = 2
    /\ At(nums, 2) = 1
    /\ result = <<>>

\* C3: if twoSum returns (i, j), no valid pair has a second index below j.
C3_EarliestSecondIndex ==
    pc = "found" =>
        ~(\E a \in Indices, b \in Indices : ValidPair(a, b) /\ b < result[2])

\* a pair is returned although another valid pair with a later second index
\* exists
C3_Witness ==
    /\ pc = "found"
    /\ \E a \in Indices, b \in Indices : ValidPair(a, b) /\ b > result[2]

\* C4 as stated: if twoSum returns (i, j), i is the smallest index at which
\* the complementary value T - S[j] occurs in S.
C4_FirstOccurrence ==
    pc = "found" =>
        \A k \in Indices :
            At(nums, k) = Sub32(target, At(nums, result[2])) => result[1] <= k

\* C4 amended: if twoSum returns (i, j), then S[i] is the complementary value
\* T - S[j] and i is the largest index below j at which it occurs.
C4_LastOccurrenceBelow ==
    pc = "found" =>
        /\ At(nums, result[1]) = Sub32(target, At(nums, result[2]))
        /\ \A k \in Indices :
               (k < result[2] /\ At(nums, k) = Sub32(target, At(nums, result[2])))
                   => k <= result[1]

\* the complementary value occurs several times before position j
C4_Witness ==
    /\ pc = "found"
    /\ Cardinality(Occurrences(Sub32(target, At(nums, result[2])), result[2])) >= 2

\* C6 as stated: when index k is examined the key set of the table is the set
\* of values S[0..k-1] and every key maps to the smallest index holding it
\* (so an insertion never changes the index of a value that is already a key).
C6_FirstOccurrenceTable ==
    pc = "scanning" =>
        /\ DOMAIN numMap = {At(nums, m) : m \in 0..(i - 1)}
        /\ \A v \in DOMAIN numMap : numMap[v] = SetMin(Occurrences(v, i))

\* C6 amended: when index k is examined the key set of the table is the set
\* of values S[0..k-1] and every key maps to the largest index m < k with
\* S[m] == v (inserting S[k] replaces the index stored for that value by k).
C6_LastOccurrenceTable ==
    pc = "scanning" =>
        /\ DOMAIN numMap = {At(nums, m) : m \in 0..(i - 1)}
        /\ \A v \in DOMAIN numMap :
               /\ Occurrences(v, i) # {}
               /\ numMap[v] = SetMax(Occurrences(v, i))

\* an index is examined while some key has been seen at two earlier indices
C6_Witness ==
    /\ pc = "scanning"
    /\ i < Len(nums)
    /\ \E v \in DOMAIN numMap : Cardinality(Occurrences(v, i)) >= 2

\* C7: the scan terminates: from "scanning" it examines 0, 1, 2, ... in
\* strictly increasing order, each once, and after at most length(S)
\* iterations reaches "found" (a pair, no later index examined) or
\* "exhausted" (all indices examined, empty result); no step leaves a
\* terminal state.
C7_ScanTerminates ==
    /\ [](/\ pc \in {"scanning", "found", "exhausted"}
          /\ i \in 0..Len(nums)
          /\ (pc = "found" => i < Len(nums) /\ Len(result) = 2 /\ result[2] = i)
          /\ (pc = "exhausted" => i = Len(nums) /\ result = <<>>))
    /\ [][/\ pc = "scanning"
          /\ \/ pc' = "scanning" /\ i' = i + 1
             \/ pc' = "found" /\ i' = i
             \/ pc' = "exhausted" /\ i' = i]_vars
    /\ <>(pc \in {"found", "exhausted"})

\* a scan that examined every index of a three-element sequence
C7_Witness ==
    /\ pc = "exhausted"
    /\ i = 3
    /\ Len(nums) = 3

\* C8: with the complement computed in 32-bit wrap-around arithmetic, a
\* returned pair satisfies S[i] + S[j] == T modulo 2^32, and as exact
\* integers whenever target - S[j] does not overflow.
C8_SumModulo ==
    pc = "found" =>
        /\ Add32(At(nums, result[1]), At(nums, result[2])) = target
        /\ SubFits(target, At(nums, result[2]))
               => ExactSumIs(At(nums, result[1]), At(nums, result[2]), target)

\* a pair returned after target - S[j] overflowed: the exact sum is not T
C8_Witness ==
    /\ pc = "found"
    /\ ~SubFits(target, At(nums, result[2]))
    /\ ~ExactSumIs(At(nums, result[1]), At(nums, result[2]), target)

\* C9: every non-matching iteration stores the current index for the current
\* value, so when index k is examined each key maps to the largest index
\* m < k holding it, and a returned pair (i, j) has i the largest index below
\* j with S[i] == T - S[j].
C9_LargestIndexStored ==
    /\ (pc = "scanning" /\ i > 0) => numMap[At(nums, i - 1)] = i - 1
    /\ pc = "scanning" =>
           \A v \in DOMAIN numMap : \A m \in Occurrences(v, i) : m <= numMap[v]
    /\ pc = "found" =>
           LET comp == Complement(target, At(nums, result[2])) IN
           /\ result[1] \in Occurrences(comp, result[2])
           /\ \A m \in Occurrences(comp, result[2]) : m <= result[1]

\* a pair whose first index is not the first occurrence of the complement
C9_Witness ==
    /\ pc = "found"
    /\ result[1] # SetMin(Occurrences(Complement(target, At(nums, result[2])), result[2]))

---------------------------------------------------------------------------
(* Properties of main's input loop.  What an input line denotes is         *)
(* computed here from the text alone: the line is cut at separators into   *)
(* tokens and each token is read as a decimal numeral.                     *)

\* the maximal runs of non-separator characters of s[k..], cur being the
\* run in progress
RECURSIVE Pieces(_, _, _, _)
Pieces(s, k, cur, seps) ==
    LET done == IF cur = <<>> THEN <<>> ELSE <<cur>> IN
    IF k > Len(s) THEN done
    ELSE IF s[k] \in seps THEN done \o Pieces(s, k + 1, <<>>, seps)
    ELSE Pieces(s, k + 1, Append(cur, s[k]), seps)

NumeralBody(t) == IF t # <<>> /\ t[1] = "-" THEN Tail(t) ELSE t

\* an optional minus sign and at least one digit
IsNumeral(t) ==
    /\ NumeralBody(t) # <<>>
    /\ \A k \in 1..Len(NumeralBody(t)) : IsDigit(NumeralBody(t)[k])

RECURSIVE Pow10(_)
Pow10(n) == IF n = 0 THEN 1 ELSE 10 * Pow10(n - 1)

RECURSIVE PlaceSum(_, _)
PlaceSum(b, k) ==
    IF k > Len(b) THEN 0
    ELSE DigitOf(b[k]) * Pow10(Len(b) - k) + PlaceSum(b, k + 1)

\* the integer a numeral denotes
NumeralValue(t) ==
    IF t[1] = "-" THEN -PlaceSum(NumeralBody(t), 1) ELSE PlaceSum(NumeralBody(t), 1)

ValuesOf(toks) == [k \in 1..Len(toks) |-> NumeralValue(toks[k])]

HasNewline(s) == \E k \in 1..Len(s) : s[k] = "\n"

FirstNewline(s) == CHOOSE k \in 1..Len(s) : s[k] = "\n" /\ \A m \in 1..(k - 1) : s[m] # "\n"

\* the first line of s, without its newline
FirstLine(s) == SubSeq(s, 1, FirstNewline(s) - 1)

\* s starts with a line of n >= 1 integers separated by spaces, the last
\* one immediately followed by the newline
IsIntegerLine(s) ==
    /\ HasNewline(s)
    /\ FirstLine(s) # <<>>
    /\ FirstLine(s)[1] # " "
    /\ FirstLine(s)[Len(FirstLine(s))] # " "
    /\ \A k \in 1..Len(Pieces(FirstLine(s), 1, <<>>, {" "})) :
           IsNumeral(Pieces(FirstLine(s), 1, <<>>, {" "})[k])

LineInts(s) == ValuesOf(Pieces(FirstLine(s), 1, <<>>, {" "}))

Front(q) == SubSeq(q, 1, Len(q) - 1)

Last(q) == q[Len(q)]

IsPrefix(a, b) == Len(a) <= Len(b) /\ a = SubSeq(b, 1, Len(a))

\* C5: for an input line of n >= 1 integers separated by spaces whose last
\* integer is immediately followed by a newline, the input loop ends with
\* nums equal to the first n-1 integers in input order and target equal to
\* the n-th; the target is never appended to nums.
C5_LineSplitsIntoNumsAndTarget ==
    IsIntegerLine(input) =>
        /\ pc = "read" => IsPrefix(nums, Front(LineInts(input)))
        /\ pc # "read" => nums = Front(LineInts(input))
        /\ pc = "call" => num = Last(LineInts(input))
        /\ pc \notin {"read", "call"} => target = Last(LineInts(input))

\* the loop has ended on a line of three integers
C5_Witness ==
    /\ pc = "scanning"
    /\ IsIntegerLine(input)
    /\ Len(LineInts(input)) = 3
    /\ Len(nums) = 2
    /\ target = Last(LineInts(input))

\* the input is integers and whitespace only, and no integer is immediately
\* followed by a newline: the last integer is followed by a blank or by the
\* end of the input, and nothing can be read after it
EndsWithoutNewline(s) ==
    /\ Pieces(s, 1, <<>>, {" ", "\n"}) # <<>>
    /\ \A k \in 1..Len(Pieces(s, 1, <<>>, {" ", "\n"})) :
           IsNumeral(Pieces(s, 1, <<>>, {" ", "\n"})[k])
    /\ \A k \in 1..(Len(s) - 1) : ~(IsDigit(s[k]) /\ s[k + 1] = "\n")

AllInts(s) == ValuesOf(Pieces(s, 1, <<>>, {" ", "\n"}))

\* C10: when the last integer of the input is not immediately followed by a
\* newline (a trailing space, or end of input without a newline) and no
\* further integer can be read, that last integer is both the final element
\* of nums and the target passed to twoSum.
C10_LastIntegerInNumsAndTarget ==
    (EndsWithoutNewline(input) /\ pc \notin {"read", "call"}) =>
        /\ target = Last(AllInts(input))
        /\ nums # <<>>
        /\ Last(nums) = Last(AllInts(input))

\* C10, where it holds: the same, for inputs in which a character follows
\* some integer, so that c has been assigned before it is compared
C10_HoldsOnceCIsAssigned ==
    (EndsWithoutNewline(input) /\ pc \notin {"read", "call"} /\ c # "indeterminate") =>
        /\ target = Last(AllInts(input))
        /\ nums = AllInts(input)

====
